---- MODULE Spec2Model ----
(***************************************************************************)
(* Camera-equipment rental ledger: the booking workflow of the customer    *)
(* form (NewBooking.tsx) and of the staff form (Bookings.tsx), the         *)
(* inventory form (Inventory.tsx) and the data store they write to         *)
(* (tables and row-level-security policies of the migrations).             *)
(*                                                                         *)
(* Money is counted in cents (the DECIMAL(10,2) columns); a value the      *)
(* client computes before the data store rounds it is counted in           *)
(* hundredths of a cent.  Dates are day numbers: day 1 is 2024-01-01.      *)
(* Every await of a handler is one step: the request it sends is executed  *)
(* by the data store atomically, and handlers of different browser         *)
(* sessions interleave between their awaits.                               *)
(***************************************************************************)
EXTENDS Integers, Sequences, FiniteSets, TLC

\* ---------------------------------------------------------------- bounds
\* bookings created in a run of Spec, of SpecRace
MaxBookings == 1
MaxRaceBookings == 2

\* the quantities typed into an equipment row, and the rows of a form
Quantities == {1, 2}
LineCounts == {1, 2}

\* ------------------------------------------------------- program constants
MsPerDay == 86400000
DefaultAllowance == 2

ItemIds == {"A"}
NoItem == ""
\* c1 holds the customer role, s1 and s2 the staff role, a1 the admin role;
\* Users are the users who open the customer form
Users == {"c1", "s1", "s2"}
StaffUser == "s1"
AdminUser == "a1"
DepositPercentages == {30, 50, 100}

VARIABLES
    app_user_roles,   \* table app_user_roles: set of [user_id, role]
    inventory_items,  \* table inventory_items: item id -> row
    bookings,         \* table bookings: sequence of rows, the id is the index
    booking_items,    \* table booking_items: sequence of rows
    nb,               \* NewBooking component state, one per signed-in user
    bk,               \* Bookings (staff) component state of the staff user
    payments,         \* table payments: sequence of rows
    dp,               \* DepositPaymentDialog component state
    auth_users,       \* auth.users: the set of identities (the id is the email)
    profiles,         \* table profiles: set of [user_id, id_number]
    cc,               \* create-customer function: the request being served
    resolved,         \* the answer of the last get_user_role call
    staff_page,       \* Staff page: the caller and the member of the last updateRole
    stk,              \* mpesa-stk-push function: the last request it built
    role_ui,          \* the role control last used on the Staff or Customers page
    nav,              \* the screen or control last asked for, and whether it is shown
    pay_page          \* Payments page: the payment last edited and the toast

\* the state of the payment dialog, of account provisioning and of the role
\* resolver, which the booking and inventory handlers never touch
ext == <<payments, dp, auth_users, profiles, cc, resolved, staff_page>>

\* the state of the push function, of the role controls and of navigation
ext2 == <<stk, role_ui, nav, pay_page>>

vars == <<app_user_roles, inventory_items, bookings, booking_items, nb, bk,
          payments, dp, auth_users, profiles, cc, resolved, staff_page, stk,
          role_ui, nav, pay_page>>

\* ------------------------------------------------------------ data store
NoRow == [present |-> FALSE, price_per_day |-> 0, total_quantity |-> 0,
          available_quantity |-> 0]

has_role(uid, role) == [user_id |-> uid, role |-> role] \in app_user_roles

RolePriority(role) ==
    CASE role = "admin" -> 1
      [] role = "staff" -> 2
      [] role = "customer" -> 3
      [] OTHER -> 4

get_user_role(uid) ==
    LET held == {r.role : r \in {x \in app_user_roles : x.user_id = uid}}
    IN IF held = {} THEN "none"
       ELSE CHOOSE r \in held : \A q \in held : RolePriority(r) <= RolePriority(q)

\* policy "Customers can create bookings": WITH CHECK (customer_id = auth.uid())
CanInsertBooking(uid, customer_id) == customer_id = uid

\* a policy that lets every signed-in user update inventory rows
CanManageInventory_Everyone(uid) == TRUE

\* policy "Admins, staff and superadmins can manage inventory" (FOR ALL USING):
\* a row the caller may not manage is filtered out of an UPDATE, which then
\* changes no row and reports no error.
CanManageInventory(uid) ==
    has_role(uid, "admin") \/ has_role(uid, "staff") \/ has_role(uid, "superadmin")

\* a value with more than two decimals stored in a DECIMAL(10,2) column is
\* rounded to the cent, half away from zero; x is in hundredths of a cent.
ToNumeric2(x) ==
    IF x >= 0 THEN (x + 50) \div 100 ELSE -((50 - x) \div 100)

\* UPDATE inventory_items SET available_quantity = v WHERE id = item, as uid
UpdateAvailable(uid, item, v) ==
    IF CanManageInventory(uid) /\ inventory_items[item].present
    THEN [inventory_items EXCEPT ![item].available_quantity = v]
    ELSE inventory_items

\* enum user_role
Roles == {"superadmin", "admin", "staff", "customer"}

\* policy "Admins and superadmins can manage roles" (FOR ALL USING)
CanManageRoles(uid) == has_role(uid, "admin") \/ has_role(uid, "superadmin")

\* policy "Staff, admins and superadmins can manage payments" (FOR ALL USING):
\* an INSERT by any other caller is refused with an error
CanManagePayments(uid) ==
    has_role(uid, "admin") \/ has_role(uid, "staff") \/ has_role(uid, "superadmin")

\* policy "Staff and admins can update bookings" (FOR UPDATE USING); no code
\* sets staff_id, so the staff_id = auth.uid() branch selects no row
CanUpdateBooking(uid) == has_role(uid, "admin") \/ has_role(uid, "staff")

\* policies "Users can view their own bookings" and "Staff can view bookings
\* they handle" (FOR SELECT USING)
CanViewBooking(uid, row) == row.customer_id = uid \/ has_role(uid, "admin")

\* a CHECK that accepts the values the client writes
PaymentStatuses_Client == {"unpaid", "partial", "paid"}

\* bookings.status CHECK, bookings.payment_status CHECK
BookingStatuses == {"pending", "confirmed", "completed", "cancelled"}
PaymentStatuses == {"unpaid", "deposit_paid", "fully_paid"}

\* UPDATE bookings SET <field> = v WHERE id = b, as uid: "error" when the new
\* row violates the CHECK of the column, otherwise the table after the update
\* (unchanged when the policy selects no row)
UpdateBookingField(uid, b, field, v, allowed) ==
    IF b \notin 1..Len(bookings) \/ ~CanUpdateBooking(uid)
    THEN [error |-> FALSE, rows |-> bookings]
    ELSE IF v \notin allowed
    THEN [error |-> TRUE, rows |-> bookings]
    ELSE [error |-> FALSE, rows |-> [bookings EXCEPT ![b][field] = v]]

\* ------------------------------------------------------- pure functions
RECURSIVE SumSeq(_)
SumSeq(s) == IF s = <<>> THEN 0 ELSE Head(s) + SumSeq(Tail(s))

\* Math.ceil(a / b) for b > 0
Ceil(a, b) == -((-a) \div b)

\* new Date("yyyy-mm-dd").getTime(): midnight UTC of the day, in ms
getTime(d) == d * MsPerDay

\* MyBookings: calculateDays
calculateDays(startDate, endDate) ==
    LET diff == getTime(endDate) - getTime(startDate)
        diffTime == IF diff < 0 THEN -diff ELSE diff
    IN Ceil(diffTime, MsPerDay) + 1

\* Bookings (staff form): the day count of calculateTotal and of itemsToInsert
BkDays(fd) == Ceil(getTime(fd.hire_end_date) - getTime(fd.hire_start_date), MsPerDay)

\* inventoryItems.find(inv => inv.id === id): the fetched row, or undefined
NoInv == [present |-> FALSE, price_per_day |-> 0, available_quantity |-> 0]

Find(snapshot, id) == IF id \in ItemIds THEN snapshot[id] ELSE NoInv

\* a total that also charges the days of the late-return allowance
NbCalculateTotal_WithAllowance(fd, snapshot) ==
    LET days == fd.rental_days
                    + (IF fd.is_traveling THEN fd.late_return_allowance ELSE 0)
        line(i) == LET inv == Find(snapshot, fd.items[i].item_id)
                   IN IF ~inv.present THEN 0
                      ELSE inv.price_per_day * fd.items[i].quantity * days
    IN SumSeq([i \in 1..Len(fd.items) |-> line(i)])

\* NewBooking: calculateTotal
NbCalculateTotal(fd, snapshot) ==
    LET days == fd.rental_days
        line(i) == LET inv == Find(snapshot, fd.items[i].item_id)
                   IN IF ~inv.present THEN 0
                      ELSE inv.price_per_day * fd.items[i].quantity * days
    IN SumSeq([i \in 1..Len(fd.items) |-> line(i)])

\* NewBooking: calculateReturnDate
calculateReturnDate(fd) ==
    fd.pickup_date + fd.rental_days
        + (IF fd.is_traveling THEN fd.late_return_allowance ELSE 0)

\* NewBooking: validateQuantity
validateQuantity(snapshot, itemId, quantity) ==
    LET inv == Find(snapshot, itemId)
    IN IF inv.present THEN quantity <= inv.available_quantity ELSE FALSE

\* NewBooking: the deposit and the balance as computed by handleSubmit,
\* in hundredths of a cent
NbDepositAmount(totalCost, pct) == totalCost * pct
NbBalanceAmount(totalCost, pct) == totalCost * 100 - NbDepositAmount(totalCost, pct)

\* line totals priced for the inclusive day count, one day more than the total
NbBookingItems_Inclusive(fd, snapshot, bookingId) ==
    [i \in 1..Len(fd.items) |->
        LET inv == Find(snapshot, fd.items[i].item_id)
            rate == IF inv.present THEN inv.price_per_day ELSE 0
        IN [booking_id |-> bookingId,
            item_id |-> fd.items[i].item_id,
            quantity |-> fd.items[i].quantity,
            daily_rate |-> rate,
            total_amount |-> rate * fd.items[i].quantity * (fd.rental_days + 1)]]

\* NewBooking: the rows of bookingItems
NbBookingItems(fd, snapshot, bookingId) ==
    [i \in 1..Len(fd.items) |->
        LET inv == Find(snapshot, fd.items[i].item_id)
            rate == IF inv.present THEN inv.price_per_day ELSE 0
        IN [booking_id |-> bookingId,
            item_id |-> fd.items[i].item_id,
            quantity |-> fd.items[i].quantity,
            daily_rate |-> rate,
            total_amount |-> rate * fd.items[i].quantity * fd.rental_days]]

\* a total priced for the inclusive day count of the dates
BkCalculateTotal_Inclusive(fd, snapshot) ==
    SumSeq([i \in 1..Len(fd.items) |->
               Find(snapshot, fd.items[i].item_id).price_per_day
                   * fd.items[i].quantity
                   * calculateDays(fd.hire_start_date, fd.hire_end_date)])

\* Bookings (staff form): calculateTotal
BkCalculateTotal(fd, snapshot) ==
    LET days == BkDays(fd)
        line(i) == LET inv == Find(snapshot, fd.items[i].item_id)
                   IN IF inv.present
                      THEN inv.price_per_day * fd.items[i].quantity * days
                      ELSE 0
    IN SumSeq([i \in 1..Len(fd.items) |-> line(i)])

\* Bookings (staff form): the rows of itemsToInsert
BkItemsToInsert(fd, snapshot, bookingId) ==
    [i \in 1..Len(fd.items) |->
        LET inv == Find(snapshot, fd.items[i].item_id)
            rate == IF inv.present THEN inv.price_per_day ELSE 0
        IN [booking_id |-> bookingId,
            item_id |-> fd.items[i].item_id,
            quantity |-> fd.items[i].quantity,
            daily_rate |-> rate,
            total_amount |-> rate * fd.items[i].quantity * BkDays(fd)]]

\* ------------------------------------------------------ component state
NoSnapshot == [i \in ItemIds |-> NoInv]

\* select id, name, price_per_day, available_quantity
Fetched(i) ==
    IF inventory_items[i].present
    THEN [present |-> TRUE,
          price_per_day |-> inventory_items[i].price_per_day,
          available_quantity |-> inventory_items[i].available_quantity]
    ELSE NoInv

\* NewBooking: fetchInventoryItems (.gt('available_quantity', 0))
NbFetchInventoryItems ==
    [i \in ItemIds |-> IF Fetched(i).available_quantity > 0 THEN Fetched(i) ELSE NoInv]

\* Bookings (staff form): fetchInventoryItems (every row)
BkFetchInventoryItems == [i \in ItemIds |-> Fetched(i)]

NbInitialForm ==
    [pickup_date |-> 0, rental_days |-> 1, is_traveling |-> FALSE,
     late_return_allowance |-> 0, deposit_percentage |-> 50,
     items |-> <<[item_id |-> NoItem, quantity |-> 1]>>]

BkInitialForm ==
    [customer_id |-> "", hire_start_date |-> 0, hire_end_date |-> 0,
     deposit_amount |-> 0, items |-> <<[item_id |-> NoItem, quantity |-> 1]>>]

\* pc: closed (not mounted), form (idle), items and stock (handleSubmit is
\* waiting for the answer of the previous write)
NbClosed ==
    [pc |-> "closed", inventoryItems |-> NoSnapshot, formData |-> NbInitialForm,
     booking |-> 0, idx |-> 0, toast |-> "none", failedAt |-> "none"]

BkClosed ==
    [pc |-> "closed", inventoryItems |-> NoSnapshot, formData |-> BkInitialForm,
     booking |-> 0, toast |-> "none", failedAt |-> "none"]

\* the equipment rows a form can hold: a row offers the fetched items
ItemRows(snapshot) ==
    LET offered == {i \in ItemIds : snapshot[i].present} \cup {NoItem}
        Row == [item_id : offered, quantity : Quantities]
    IN UNION {[1..n -> Row] : n \in LineCounts}

\* foreign key booking_items.item_id REFERENCES inventory_items(id)
ItemsExist(rows) ==
    \A i \in 1..Len(rows) :
        rows[i].item_id \in ItemIds /\ inventory_items[rows[i].item_id].present

\* DepositPaymentDialog: closed, open (idle), stk (the push function is
\* called), booking (the payments insert is answered, the bookings update is
\* sent).  booking and deposit_amount are the props, amount the sum paid,
\* toast the title and error the message of the last toast.  A number typed
\* into an input is NaN or an amount in cents.
NaN == [nan |-> TRUE, cents |-> 0]

Num(c) == [nan |-> FALSE, cents |-> c]

DpClosed ==
    [pc |-> "closed", user |-> "", booking |-> 0, deposit_amount |-> 0,
     method |-> "none", amount |-> Num(0), reference |-> "", toast |-> "none",
     error |-> "none"]

\* create-customer: idle, profile (the identity is created, the profiles
\* insert is sent); response is the last answer of the function
NoResponse == [status |-> 0, success |-> FALSE, user |-> "", error |-> FALSE]

CcIdle == [pc |-> "idle", email |-> "", id_number |-> "", user |-> "",
           response |-> NoResponse]

NoAnswer == [user_id |-> "", role |-> "none"]

StaffPageClosed == [user |-> "", target |-> "", toast |-> "none"]

\* mpesa-stk-push: no request built yet; a phone number is a sequence of
\* characters
StkIdle == [pc |-> "idle", phone_number |-> <<>>, PartyA |-> <<>>]

\* Payments page: no payment edited yet
PayPageIdle == [user |-> "", editing |-> 0, toast |-> "none"]

\* nothing asked for yet
NavIdle == [user |-> "", userRole |-> "none", screen |-> "none", shown |-> FALSE]

\* no role control used yet; otherwise the page, the caller and the userRole
\* the page got for the caller, the row acted on with the role the page
\* shows for it, the role picked, the toast and the error of the request
\* (none, unique for a refusal by UNIQUE (user_id, role), network)
RoleUiIdle ==
    [screen |-> "none", caller |-> "", userRole |-> "none", target |-> "",
     shown |-> "none", newRole |-> "none", toast |-> "none", error |-> "none"]

\* the tables and components outside the booking workflow, at the start
InitExt ==
    /\ payments = <<>>
    /\ dp = DpClosed
    /\ auth_users = {"c1", "s1", "s2", "a1"}
    /\ profiles = {}
    /\ cc = CcIdle
    /\ resolved = NoAnswer
    /\ staff_page = StaffPageClosed
    /\ stk = StkIdle
    /\ role_ui = RoleUiIdle
    /\ nav = NavIdle
    /\ pay_page = PayPageIdle

Init ==
    /\ InitExt
    /\ app_user_roles = {[user_id |-> "c1", role |-> "customer"],
                         [user_id |-> "s1", role |-> "staff"],
                         [user_id |-> "s2", role |-> "staff"],
                         [user_id |-> "a1", role |-> "admin"]}
    /\ inventory_items = [i \in ItemIds |-> NoRow]
    /\ bookings = <<>>
    /\ booking_items = <<>>
    /\ nb = [u \in Users |-> NbClosed]
    /\ bk = BkClosed

\* ------------------------------------------- NewBooking (customer form)
\* the page opens: useEffect -> fetchInventoryItems
NbMount(u) ==
    /\ nb[u].pc = "closed"
    /\ u = StaffUser => bk.pc = "closed"
    /\ \E ok \in BOOLEAN :
        nb' = [nb EXCEPT ![u] =
                 [NbClosed EXCEPT !.pc = "form",
                                  !.inventoryItems =
                                      IF ok THEN NbFetchInventoryItems ELSE NoSnapshot,
                                  !.toast = IF ok THEN "none" ELSE "error"]]
    /\ UNCHANGED <<ext2, ext, app_user_roles, inventory_items, bookings, booking_items, bk>>

\* "Back to Dashboard"
NbLeave(u) ==
    /\ nb[u].pc = "form"
    /\ nb' = [nb EXCEPT ![u] = NbClosed]
    /\ UNCHANGED <<ext2, ext, app_user_roles, inventory_items, bookings, booking_items, bk>>

\* the first line whose quantity fails validateQuantity, 0 when none does
NbFirstInvalid(fd, snapshot) ==
    LET bad == {i \in 1..Len(fd.items) :
                   ~validateQuantity(snapshot, fd.items[i].item_id, fd.items[i].quantity)}
    IN IF bad = {} THEN 0 ELSE CHOOSE i \in bad : \A j \in bad : i <= j

\* the bookings row of handleSubmit, as the data store keeps it
NbBookingRow(u, fd, snapshot) ==
    LET totalCost == NbCalculateTotal(fd, snapshot)
    IN [customer_id |-> u,
        hire_start_date |-> fd.pickup_date,
        hire_end_date |-> calculateReturnDate(fd),
        total_cost |-> ToNumeric2(totalCost * 100),
        deposit_amount |-> ToNumeric2(NbDepositAmount(totalCost, fd.deposit_percentage)),
        balance_amount |-> ToNumeric2(NbBalanceAmount(totalCost, fd.deposit_percentage)),
        status |-> "pending",
        payment_status |-> "unpaid"]

\* a catch that reports the error and lets the handler go on
NbFailed_Continue(st, step) ==
    [st EXCEPT !.toast = "error", !.failedAt = step]

\* the catch block of handleSubmit: the error toast; the page stays open with
\* the inventory it fetched.  formData is kept only while a submission runs
\* (the next submission reads the form anew); booking and idx tell how far
\* the failed submission came.
NbFailed(st, step) ==
    [NbClosed EXCEPT !.pc = "form", !.inventoryItems = st.inventoryItems,
                     !.booking = st.booking, !.idx = st.idx,
                     !.toast = "error", !.failedAt = step]

\* handleSubmit with the form fd, up to the answer of the bookings insert;
\* booking and idx are locals of the call, nothing of an earlier call is left
NbSubmit(u, fd) ==
    /\ nb[u].pc = "form"
    /\ fd.items \in ItemRows(nb[u].inventoryItems)
    /\ NbCalculateTotal(fd, nb[u].inventoryItems) # 0   \* the button is disabled at 0
    /\ \E ok \in BOOLEAN :
        LET snapshot == nb[u].inventoryItems
            row == NbBookingRow(u, fd, snapshot)
            fresh == [nb[u] EXCEPT !.booking = 0, !.idx = 0]
        IN IF NbFirstInvalid(fd, snapshot) # 0
           THEN /\ nb' = [nb EXCEPT ![u] = NbFailed(fresh, "validate")]
                /\ UNCHANGED bookings
           ELSE IF ok /\ CanInsertBooking(u, row.customer_id)
           THEN /\ bookings' = Append(bookings, row)
                /\ nb' = [nb EXCEPT ![u].formData = fd, ![u].pc = "items",
                                    ![u].booking = Len(bookings) + 1,
                                    ![u].idx = 0,
                                    ![u].toast = "none", ![u].failedAt = "none"]
           ELSE /\ nb' = [nb EXCEPT ![u] = NbFailed(fresh, "booking")]
                /\ UNCHANGED bookings
    /\ UNCHANGED <<ext2, ext, app_user_roles, inventory_items, booking_items, bk>>

\* handleSubmit: the booking_items insert
NbInsertItems(u) ==
    /\ nb[u].pc = "items"
    /\ \E ok \in BOOLEAN :
        LET rows == NbBookingItems(nb[u].formData, nb[u].inventoryItems, nb[u].booking)
        IN IF ok /\ ItemsExist(rows)
           THEN /\ booking_items' = booking_items \o rows
                /\ nb' = [nb EXCEPT ![u].pc = "stock", ![u].idx = 1]
           ELSE /\ nb' = [nb EXCEPT ![u] = NbFailed(nb[u], "items")]
                /\ UNCHANGED booking_items
    /\ UNCHANGED <<ext2, ext, app_user_roles, inventory_items, bookings, bk>>

\* handleSubmit: one pass of the inventory update loop; the last pass is
\* followed by the success toast, which names the booking, and by
\* navigate('/my-bookings'), which unmounts the form
NbUpdateStock(u) ==
    /\ nb[u].pc = "stock"
    /\ \E ok \in BOOLEAN :
        LET line == nb[u].formData.items[nb[u].idx]
            inv == Find(nb[u].inventoryItems, line.item_id)
            last == nb[u].idx = Len(nb[u].formData.items)
        IN IF inv.present /\ ~ok
           THEN /\ nb' = [nb EXCEPT ![u] = NbFailed(nb[u], "stock")]
                /\ UNCHANGED inventory_items
           ELSE /\ inventory_items' =
                     IF inv.present
                     THEN UpdateAvailable(u, line.item_id,
                                          inv.available_quantity - line.quantity)
                     ELSE inventory_items
                /\ nb' = [nb EXCEPT ![u] =
                            IF last
                            THEN [NbClosed EXCEPT !.toast = "success",
                                                  !.booking = nb[u].booking]
                            ELSE [@ EXCEPT !.idx = @ + 1]]
    /\ UNCHANGED <<ext2, ext, app_user_roles, bookings, booking_items, bk>>

\* --------------------------------------------- Bookings (staff form)
\* the page opens (it redirects unless userRole is admin or staff)
BkMount ==
    /\ bk.pc = "closed"
    /\ nb[StaffUser].pc = "closed"
    /\ get_user_role(StaffUser) \in {"admin", "staff"}
    /\ \E ok \in BOOLEAN :
        bk' = [BkClosed EXCEPT !.pc = "form",
                               !.inventoryItems =
                                   IF ok THEN BkFetchInventoryItems ELSE NoSnapshot]
    /\ UNCHANGED <<ext2, ext, app_user_roles, inventory_items, bookings, booking_items, nb>>

BkLeave ==
    /\ bk.pc = "form"
    /\ bk' = BkClosed
    /\ UNCHANGED <<ext2, ext, app_user_roles, inventory_items, bookings, booking_items, nb>>

\* the bookingData of handleSubmit
BkBookingData(fd, snapshot) ==
    LET totalCost == BkCalculateTotal(fd, snapshot)
        depositAmount == fd.deposit_amount
        balanceAmount == totalCost - depositAmount
    IN [customer_id |-> fd.customer_id,
        hire_start_date |-> fd.hire_start_date,
        hire_end_date |-> fd.hire_end_date,
        total_cost |-> totalCost,
        deposit_amount |-> depositAmount,
        balance_amount |-> balanceAmount,
        status |-> "pending",
        payment_status |-> "unpaid"]

\* handleSubmit (no booking being edited) with the form fd, up to the answer
\* of the bookings insert; the success toast follows the insert at once.
\* formData is kept only while a submission runs.
BkSubmit(fd) ==
    /\ bk.pc = "form"
    /\ fd.items \in ItemRows(bk.inventoryItems)
    /\ \E ok \in BOOLEAN :
        LET row == BkBookingData(fd, bk.inventoryItems)
        IN IF ok /\ CanInsertBooking(StaffUser, row.customer_id)
           THEN /\ bookings' = Append(bookings, row)
                /\ bk' = [bk EXCEPT !.formData = fd, !.pc = "items",
                                    !.booking = Len(bookings) + 1,
                                    !.toast = "success", !.failedAt = "none"]
           ELSE /\ bk' = [bk EXCEPT !.formData = BkInitialForm, !.booking = 0,
                                    !.toast = "error", !.failedAt = "booking"]
                /\ UNCHANGED bookings
    /\ UNCHANGED <<ext2, ext, app_user_roles, inventory_items, booking_items, nb>>

\* handleSubmit: the booking_items insert, then resetForm
BkInsertItems ==
    /\ bk.pc = "items"
    /\ \E ok \in BOOLEAN :
        LET rows == BkItemsToInsert(bk.formData, bk.inventoryItems, bk.booking)
        IN IF ok /\ ItemsExist(rows)
           THEN /\ booking_items' = booking_items \o rows
                /\ bk' = [bk EXCEPT !.pc = "form", !.formData = BkInitialForm,
                                    !.booking = 0]
           ELSE /\ bk' = [bk EXCEPT !.pc = "form", !.formData = BkInitialForm,
                                    !.booking = 0, !.toast = "error",
                                    !.failedAt = "items"]
                /\ UNCHANGED booking_items
    /\ UNCHANGED <<ext2, ext, app_user_roles, inventory_items, bookings, nb>>

\* the form the Edit button of the listed booking b opens: the booking's
\* customer, dates and deposit, and one empty equipment row
BkEditForm(b) ==
    [customer_id |-> bookings[b].customer_id,
     hire_start_date |-> bookings[b].hire_start_date,
     hire_end_date |-> bookings[b].hire_end_date,
     deposit_amount |-> bookings[b].deposit_amount,
     items |-> <<[item_id |-> NoItem, quantity |-> 1]>>]

\* UPDATE bookings SET <bookingData> WHERE id = b, as uid
UpdateBookingRow(uid, b, row) ==
    IF b \notin 1..Len(bookings) \/ ~CanUpdateBooking(uid)
    THEN bookings
    ELSE [bookings EXCEPT ![b] = row]

\* handleSubmit while the listed booking b is being edited, the dialog
\* submitted with the equipment rows items and the other fields as opened:
\* the bookings update, the success toast, resetForm; no line item is written
BkEdit(b, items) ==
    /\ bk.pc = "form"
    /\ b \in 1..Len(bookings)
    /\ CanViewBooking(StaffUser, bookings[b])
    /\ items \in ItemRows(bk.inventoryItems)
    /\ \E ok \in BOOLEAN :
        LET fd == [BkEditForm(b) EXCEPT !.items = items]
            row == BkBookingData(fd, bk.inventoryItems)
        IN IF ok
           THEN /\ bookings' = UpdateBookingRow(StaffUser, b, row)
                /\ bk' = [bk EXCEPT !.formData = BkInitialForm, !.booking = 0,
                                    !.toast = "success", !.failedAt = "none"]
           ELSE /\ UNCHANGED bookings
                /\ bk' = [bk EXCEPT !.formData = BkInitialForm, !.booking = 0,
                                    !.toast = "error", !.failedAt = "booking"]
    /\ UNCHANGED <<ext2, ext, app_user_roles, inventory_items, booking_items, nb>>

\* the status Select of a listed booking: updateBookingStatus
updateBookingStatus(b, newStatus) ==
    /\ bk.pc = "form"
    /\ b \in 1..Len(bookings)
    /\ CanViewBooking(StaffUser, bookings[b])
    /\ \E ok \in BOOLEAN :
        LET upd == UpdateBookingField(StaffUser, b, "status", newStatus,
                                      BookingStatuses)
        IN IF ok /\ ~upd.error
           THEN /\ bookings' = upd.rows
                /\ bk' = [bk EXCEPT !.toast = "success", !.failedAt = "none"]
           ELSE /\ UNCHANGED bookings
                /\ bk' = [bk EXCEPT !.toast = "error", !.failedAt = "status"]
    /\ UNCHANGED <<ext2, ext, app_user_roles, inventory_items, booking_items, nb>>

\* the values of the payment status Select of a listed booking
PaymentStatusOptions == {"unpaid", "partial", "paid"}

\* the payment status Select of a listed booking: updatePaymentStatus;
\* failedAt tells a refusal by the CHECK of the column from a lost request
updatePaymentStatus(b, newStatus) ==
    /\ bk.pc = "form"
    /\ b \in 1..Len(bookings)
    /\ CanViewBooking(StaffUser, bookings[b])
    /\ newStatus \in PaymentStatusOptions
    /\ \E ok \in BOOLEAN :
        LET upd == UpdateBookingField(StaffUser, b, "payment_status", newStatus,
                                      PaymentStatuses)
        IN IF ok /\ ~upd.error
           THEN /\ bookings' = upd.rows
                /\ bk' = [bk EXCEPT !.toast = "success", !.failedAt = "none"]
           ELSE /\ UNCHANGED bookings
                /\ bk' = [bk EXCEPT !.toast = "error",
                                    !.failedAt = IF ok THEN "payment_status check"
                                                 ELSE "payment_status"]
    /\ UNCHANGED <<ext2, ext, app_user_roles, inventory_items, booking_items, nb>>

\* DELETE FROM bookings WHERE id = b, as uid: bookings has policies for
\* SELECT, INSERT and UPDATE and none for DELETE, so no row is selected and
\* the statement succeeds without deleting
DeleteBookingRows(uid, b) == bookings

\* the delete button of a listed booking, shown to an admin: deleteBooking
deleteBooking(b) ==
    /\ bk.pc = "form"
    /\ get_user_role(StaffUser) = "admin"
    /\ b \in 1..Len(bookings)
    /\ CanViewBooking(StaffUser, bookings[b])
    /\ \E ok \in BOOLEAN :
        IF ok
        THEN /\ bookings' = DeleteBookingRows(StaffUser, b)
             /\ bk' = [bk EXCEPT !.toast = "success", !.failedAt = "none"]
        ELSE /\ UNCHANGED bookings
             /\ bk' = [bk EXCEPT !.toast = "error", !.failedAt = "delete"]
    /\ UNCHANGED <<ext2, ext, app_user_roles, inventory_items, booking_items, nb>>

\* ------------------------------------------------- Inventory (admin)
\* an update that also re-derives the rate of the item's line items
InvSubmit_Reprice(i, price, total, available) ==
    /\ get_user_role(AdminUser) \in {"admin", "staff"}
    /\ CanManageInventory(AdminUser)
    /\ inventory_items' = [inventory_items EXCEPT ![i] =
            [present |-> TRUE, price_per_day |-> price, total_quantity |-> total,
             available_quantity |-> available]]
    /\ booking_items' =
            [j \in 1..Len(booking_items) |->
                IF booking_items[j].item_id = i
                THEN [booking_items[j] EXCEPT !.daily_rate = price]
                ELSE booking_items[j]]
    /\ UNCHANGED <<ext2, ext, app_user_roles, bookings, nb, bk>>

\* handleSubmit: add the item (no editingItem) or update it
InvSubmit(i, price, total, available) ==
    /\ get_user_role(AdminUser) \in {"admin", "staff"}
    /\ CanManageInventory(AdminUser)
    /\ inventory_items' = [inventory_items EXCEPT ![i] =
            [present |-> TRUE, price_per_day |-> price, total_quantity |-> total,
             available_quantity |-> available]]
    /\ UNCHANGED <<ext2, ext, app_user_roles, bookings, booking_items, nb, bk>>

\* ------------------------------------------- create-customer function
\* the answers of the function
CcSuccess(user) == [status |-> 200, success |-> TRUE, user |-> user, error |-> FALSE]

CcError == [status |-> 400, success |-> FALSE, user |-> "", error |-> TRUE]

\* handle_new_user, fired by the insert into auth.users
handle_new_user(id) == app_user_roles \cup {[user_id |-> id, role |-> "customer"]}

\* a catch block that deletes the identity the request created
AuthUsersAfterError_Removed(user) == auth_users \ {user}

\* auth.users after the catch block answered for a request that had created
\* the identity user: the block only builds the response
AuthUsersAfterError(user) == auth_users

\* serve, up to the answer of auth.admin.createUser: a taken email or any
\* other failure is thrown and answered with { error }, status 400
CcCreateUser(email, idNumber) ==
    /\ cc.pc = "idle"
    /\ \E ok \in BOOLEAN :
        IF ok /\ email \notin auth_users
        THEN /\ auth_users' = auth_users \cup {email}
             /\ app_user_roles' = handle_new_user(email)
             /\ cc' = [pc |-> "profile", email |-> email, id_number |-> idNumber,
                       user |-> email, response |-> NoResponse]
        ELSE /\ cc' = [pc |-> "idle", email |-> email, id_number |-> idNumber,
                       user |-> "", response |-> CcError]
             /\ UNCHANGED <<auth_users, app_user_roles>>
    /\ UNCHANGED <<ext2, payments, dp, profiles, resolved, staff_page,
                   inventory_items, bookings, booking_items, nb, bk>>

\* serve, from the profiles insert to the response: user_id and id_number
\* are UNIQUE, the service role bypasses row level security
CcInsertProfile ==
    /\ cc.pc = "profile"
    /\ \E ok \in BOOLEAN :
        IF /\ ok
           /\ \A p \in profiles : p.user_id # cc.user /\ p.id_number # cc.id_number
        THEN /\ profiles' = profiles \cup
                     {[user_id |-> cc.user, id_number |-> cc.id_number]}
             /\ cc' = [cc EXCEPT !.pc = "idle", !.response = CcSuccess(cc.user)]
             /\ UNCHANGED auth_users
        ELSE /\ auth_users' = AuthUsersAfterError(cc.user)
             /\ cc' = [cc EXCEPT !.pc = "idle", !.response = CcError]
             /\ UNCHANGED profiles
    /\ UNCHANGED <<ext2, payments, dp, resolved, staff_page, app_user_roles,
                   inventory_items, bookings, booking_items, nb, bk>>

\* ------------------------------------------- mpesa-stk-push function
\* '254' and startsWith('254')
Prefix254 == <<"2", "5", "4">>

StartsWith254(s) == Len(s) >= 3 /\ SubSeq(s, 1, 3) = Prefix254

\* replace(/0/, '254'): the first "0" of s, wherever it is, becomes "254"
ReplaceFirst0(s) ==
    IF \E k \in 1..Len(s) : s[k] = "0"
    THEN LET k == CHOOSE k \in 1..Len(s) :
                      s[k] = "0" /\ \A j \in 1..(k - 1) : s[j] # "0"
         IN SubSeq(s, 1, k - 1) \o Prefix254 \o SubSeq(s, k + 1, Len(s))
    ELSE s

\* formatting with the pattern not anchored at the start
formattedPhone_Unanchored(phone_number) ==
    LET replaced == ReplaceFirst0(phone_number)
    IN IF StartsWith254(replaced) THEN replaced ELSE Prefix254 \o replaced

\* replace(/^0/, '254'): a "0" at the start of s becomes "254"
ReplaceLeading0(s) ==
    IF Len(s) >= 1 /\ s[1] = "0" THEN Prefix254 \o Tail(s) ELSE s

\* formattedPhone
formattedPhone(phone_number) ==
    LET replaced == ReplaceLeading0(phone_number)
    IN IF StartsWith254(replaced) THEN replaced ELSE Prefix254 \o replaced

\* serve, the formatting of phone_number into PartyA of the push request
StkFormat(phone_number) ==
    /\ stk' = [pc |-> "built", phone_number |-> phone_number,
               PartyA |-> formattedPhone(phone_number)]
    /\ UNCHANGED <<ext, role_ui, nav, pay_page, app_user_roles, inventory_items, bookings,
                   booking_items, nb, bk>>

\* ------------------------------------------- DepositPaymentDialog
\* the parent opens the dialog for a booking the user can see
DpOpen(u, b) ==
    /\ dp.pc = "closed"
    /\ b \in 1..Len(bookings)
    /\ CanViewBooking(u, bookings[b])
    /\ dp' = [DpClosed EXCEPT !.pc = "open", !.user = u, !.booking = b,
                              !.deposit_amount = bookings[b].deposit_amount]
    /\ UNCHANGED <<ext2, app_user_roles, inventory_items, bookings, booking_items, nb, bk,
                   payments, auth_users, profiles, cc, resolved, staff_page>>

DpClose ==
    /\ dp.pc = "open"
    /\ dp' = DpClosed
    /\ UNCHANGED <<ext2, app_user_roles, inventory_items, bookings, booking_items, nb, bk,
                   payments, auth_users, profiles, cc, resolved, staff_page>>

\* amount checks that let every amount pass
CashInvalid_None(amount, deposit_amount) == "none"

\* handleCashPayment: the toast of the amount checks, "none" when they pass
CashInvalid(amount, deposit_amount) ==
    IF amount.nan \/ amount.cents <= 0 THEN "Invalid Amount"
    ELSE IF amount.cents > deposit_amount THEN "Amount Too High"
    ELSE "none"

\* INSERT INTO payments, as uid: the policy admits the row, the booking exists
CanInsertPayment(uid, row) ==
    CanManagePayments(uid) /\ row.booking_id \in 1..Len(bookings)

\* the catch blocks: the "Payment Failed" toast with the message of the error
DpFailed(st, message) ==
    [st EXCEPT !.pc = "open", !.toast = "Payment Failed", !.error = message]

\* handleCashPayment with the typed amount, up to the answer of the payments
\* insert
handleCashPayment(amount) ==
    /\ dp.pc = "open"
    /\ LET st == [dp EXCEPT !.method = "cash", !.amount = amount, !.error = "none"]
           invalid == CashInvalid(amount, dp.deposit_amount)
           row == [booking_id |-> dp.booking, amount |-> amount.cents,
                   payment_type |-> "deposit", mpesa_reference |-> "CASH",
                   status |-> "completed"]
       IN IF invalid # "none"
          THEN /\ dp' = [st EXCEPT !.toast = invalid]
               /\ UNCHANGED payments
          ELSE \E ok \in BOOLEAN :
               IF ok /\ CanInsertPayment(dp.user, row)
               THEN /\ payments' = Append(payments, row)
                    /\ dp' = [st EXCEPT !.pc = "booking", !.toast = "none"]
               ELSE /\ dp' = DpFailed(st, IF ok THEN "policy" ELSE "network")
                    /\ UNCHANGED payments
    /\ UNCHANGED <<ext2, app_user_roles, inventory_items, bookings, booking_items, nb, bk,
                   auth_users, profiles, cc, resolved, staff_page>>

\* handleMpesaPayment with the typed phone number, up to the call of the
\* push function
handleMpesaPayment(phoneNumber) ==
    /\ dp.pc = "open"
    /\ LET st == [dp EXCEPT !.method = "mpesa", !.amount = Num(dp.deposit_amount),
                            !.error = "none"]
       IN IF phoneNumber = ""
          THEN dp' = [st EXCEPT !.toast = "Phone Number Required"]
          ELSE dp' = [st EXCEPT !.pc = "stk", !.toast = "none"]
    /\ UNCHANGED <<ext2, app_user_roles, inventory_items, bookings, booking_items, nb, bk,
                   payments, auth_users, profiles, cc, resolved, staff_page>>

\* mpesa-stk-push: failed (configuration, token or network: status 400),
\* rejected (the gateway answered without a CheckoutRequestID) or sent; the
\* function answers success: true in the last two cases
StkOutcomes == {"failed", "rejected", "sent"}

\* handleMpesaPayment: the answer of the push function; on success the
\* pending payment is inserted
DpStkAnswer ==
    /\ dp.pc = "stk"
    /\ \E outcome \in StkOutcomes, ok \in BOOLEAN :
        LET reference == IF outcome = "sent" THEN "CheckoutRequestID" ELSE "PENDING"
            row == [booking_id |-> dp.booking, amount |-> dp.deposit_amount,
                    payment_type |-> "deposit", mpesa_reference |-> reference,
                    status |-> "pending"]
        IN IF outcome = "failed"
           THEN /\ dp' = DpFailed(dp, "function")
                /\ UNCHANGED payments
           ELSE IF ok /\ CanInsertPayment(dp.user, row)
           THEN /\ payments' = Append(payments, row)
                /\ dp' = [dp EXCEPT !.pc = "booking", !.reference = reference]
           ELSE /\ dp' = DpFailed(dp, IF ok THEN "policy" ELSE "network")
                /\ UNCHANGED payments
    /\ UNCHANGED <<ext2, app_user_roles, inventory_items, bookings, booking_items, nb, bk,
                   auth_users, profiles, cc, resolved, staff_page>>

\* the payment_status the handlers write after the payments insert
newPaymentStatus(st) ==
    IF st.method = "cash" /\ st.amount.cents < st.deposit_amount
    THEN "unpaid" ELSE "partial"

\* both handlers: the bookings update (the mpesa handler also sends
\* mpesa_reference, a column no other handler reads), the toast, and the
\* dialog closes
DpUpdateBooking ==
    /\ dp.pc = "booking"
    /\ \E ok \in BOOLEAN :
        LET upd == UpdateBookingField(dp.user, dp.booking, "payment_status",
                                      newPaymentStatus(dp), PaymentStatuses)
        IN IF ok /\ ~upd.error
           THEN /\ bookings' = upd.rows
                /\ dp' = [dp EXCEPT !.pc = "closed",
                                    !.toast = IF dp.method = "cash"
                                              THEN "Cash Payment Recorded"
                                              ELSE "STK Push Sent"]
           ELSE /\ dp' = DpFailed(dp, IF ok THEN "check" ELSE "network")
                /\ UNCHANGED bookings
    /\ UNCHANGED <<ext2, app_user_roles, inventory_items, booking_items, nb, bk,
                   payments, auth_users, profiles, cc, resolved, staff_page>>

\* ------------------------------------------------------- Payments page
\* payments.payment_type CHECK, payments.status CHECK
PaymentTypes == {"deposit", "balance", "full"}
PaymentRowStatuses == {"pending", "completed", "failed"}

\* the form openEditDialog fills from the listed payment p
PayEditForm(p) ==
    [booking_id |-> payments[p].booking_id,
     amount |-> payments[p].amount,
     payment_type |-> payments[p].payment_type,
     mpesa_reference |-> payments[p].mpesa_reference]

\* paymentData of handleSubmit
paymentData(fd) ==
    [booking_id |-> fd.booking_id, amount |-> fd.amount,
     payment_type |-> fd.payment_type, mpesa_reference |-> fd.mpesa_reference,
     status |-> "pending"]

\* UPDATE payments SET <row> WHERE id = p, as uid: no row is selected for a
\* caller the manage-payments policy does not admit; a row that breaks a
\* CHECK or the foreign key to bookings is refused
UpdatePaymentRow(uid, p, row) ==
    IF p \notin 1..Len(payments) \/ ~CanManagePayments(uid)
    THEN [error |-> FALSE, rows |-> payments]
    ELSE IF \/ row.payment_type \notin PaymentTypes
            \/ row.status \notin PaymentRowStatuses
            \/ row.booking_id \notin 1..Len(bookings)
    THEN [error |-> TRUE, rows |-> payments]
    ELSE [error |-> FALSE, rows |-> [payments EXCEPT ![p] = row]]

\* handleSubmit while the listed payment p is being edited by u, the dialog
\* submitted with amount, type and reference as typed
PayEdit(u, p, amount, payment_type, mpesa_reference) ==
    /\ get_user_role(u) \in {"admin", "staff", "superadmin"}
    /\ p \in 1..Len(payments)
    /\ \E ok \in BOOLEAN :
        LET fd == [PayEditForm(p) EXCEPT !.amount = amount,
                                        !.payment_type = payment_type,
                                        !.mpesa_reference = mpesa_reference]
            upd == UpdatePaymentRow(u, p, paymentData(fd))
        IN IF ok /\ ~upd.error
           THEN /\ payments' = upd.rows
                /\ pay_page' = [user |-> u, editing |-> p, toast |-> "success"]
           ELSE /\ UNCHANGED payments
                /\ pay_page' = [user |-> u, editing |-> p, toast |-> "error"]
    /\ UNCHANGED <<stk, role_ui, nav, dp, auth_users, profiles, cc, resolved,
                   staff_page, app_user_roles, inventory_items, bookings,
                   booking_items, nb, bk>>

\* ------------------------------------------------------ roles
\* a call of get_user_role for u
Resolve(u) ==
    /\ resolved' = [user_id |-> u, role |-> get_user_role(u)]
    /\ UNCHANGED <<ext2, app_user_roles, inventory_items, bookings, booking_items, nb, bk,
                   payments, dp, auth_users, profiles, cc, staff_page>>

\* Staff page, fetchStaff: the roles listed for a caller of role userRole
roleFilter(userRole) ==
    CASE userRole = "superadmin" -> {"superadmin", "admin", "staff"}
      [] userRole = "admin" -> {"admin", "staff"}
      [] OTHER -> {}

\* Staff page: the roles the Select of a member row offers to the caller
RoleOptions(caller, userRole, member) ==
    IF member.user_id = caller /\ member.role = "superadmin" THEN {}
    ELSE IF userRole = "superadmin" THEN {"superadmin", "admin", "staff"}
    ELSE IF userRole = "admin" /\ member.role # "superadmin" THEN {"admin", "staff"}
    ELSE {}

\* UPDATE app_user_roles SET role = newRole WHERE user_id = target, as uid:
\* every row of target gets newRole; UNIQUE (user_id, role) refuses the
\* update when target holds more than one row
UpdateRoleRows(uid, target, newRole) ==
    LET rows == {r \in app_user_roles : r.user_id = target}
    IN IF ~CanManageRoles(uid) \/ rows = {}
       THEN [error |-> FALSE, rows |-> app_user_roles]
       ELSE IF Cardinality(rows) > 1
       THEN [error |-> TRUE, rows |-> app_user_roles]
       ELSE [error |-> FALSE,
             rows |-> (app_user_roles \ rows)
                          \cup {[user_id |-> target, role |-> newRole]}]

\* Staff page: the caller picks newRole in the Select of a listed member row;
\* userRole, which gates the page, is the role the resolver gives the caller
updateRole(caller, member, newRole) ==
    LET userRole == get_user_role(caller)
        used(toast, error) ==
            [screen |-> "staff", caller |-> caller, userRole |-> userRole,
             target |-> member.user_id, shown |-> member.role,
             newRole |-> newRole, toast |-> toast, error |-> error]
    IN /\ userRole \in {"admin", "superadmin"}
       /\ member \in app_user_roles
       /\ member.role \in roleFilter(userRole)
       /\ newRole \in RoleOptions(caller, userRole, member)
       /\ \E ok \in BOOLEAN :
            LET upd == UpdateRoleRows(caller, member.user_id, newRole)
            IN IF ok /\ ~upd.error
               THEN /\ app_user_roles' = upd.rows
                    /\ staff_page' = [user |-> caller, target |-> member.user_id,
                                      toast |-> "success"]
                    /\ role_ui' = used("success", "none")
               ELSE /\ UNCHANGED app_user_roles
                    /\ staff_page' = [user |-> caller, target |-> member.user_id,
                                      toast |-> "error"]
                    /\ role_ui' = used("error", IF ok THEN "unique" ELSE "network")
       /\ UNCHANGED <<stk, nav, pay_page, inventory_items, bookings, booking_items, nb, bk,
                      payments, dp, auth_users, profiles, cc, resolved>>

\* ------------------------------------------------------------ role gates
\* the screens and controls that depend on userRole
Screens == {"bookings", "item analysis", "inventory list", "admin panel",
            "delete booking", "delete item"}

\* whether a user of role userRole gets the screen or control: the redirect
\* of Bookings and of ItemAnalysis, the fetch of Inventory, the admin panel
\* of the Dashboard, the delete buttons of Bookings and of Inventory
Shown(screen, userRole) ==
    CASE screen = "bookings" -> userRole \in {"admin", "staff"}
      [] screen = "item analysis" -> userRole \in {"admin", "staff"}
      [] screen = "inventory list" -> userRole \in {"admin", "staff"}
      [] screen = "admin panel" -> userRole \in {"admin", "superadmin"}
      [] screen = "delete booking" -> userRole = "admin"
      [] screen = "delete item" -> userRole = "admin"

\* the user u, whose role the resolver gives, asks for a screen
Visit(u, screen) ==
    /\ nav' = [user |-> u, userRole |-> get_user_role(u), screen |-> screen,
               shown |-> Shown(screen, get_user_role(u))]
    /\ UNCHANGED <<ext, stk, role_ui, pay_page, app_user_roles, inventory_items,
                   bookings, booking_items, nb, bk>>

\* ------------------------------------------------------- Customers page
\* the app_user_roles rows a SELECT returns to viewer: policies "Users can
\* view their own roles" and "Admins and superadmins can view all roles"
VisibleRoles(viewer) ==
    {r \in app_user_roles : r.user_id = viewer \/ CanManageRoles(viewer)}

\* fetchCustomers: the roles roleMap can hold for uid, the role of the last
\* of uid's rows in the unordered answer, and 'customer' without a row
ShownRoles(viewer, uid) ==
    LET rs == {r.role : r \in {x \in VisibleRoles(viewer) : x.user_id = uid}}
    IN IF rs = {} THEN {"customer"} ELSE rs

\* options that also let an admin promote to admin
PromoteOptions_AdminToAdmin(userRole, shown) ==
    IF shown # "customer" THEN {}
    ELSE IF userRole \in {"superadmin", "admin"} THEN {"admin", "staff"}
    ELSE {}

\* the roles the Promote Select of a row offers
PromoteOptions(userRole, shown) ==
    IF shown # "customer" THEN {}
    ELSE IF userRole = "superadmin" THEN {"admin", "staff"}
    ELSE IF userRole = "admin" THEN {"staff"}
    ELSE {}

\* the caller picks newRole in the Promote Select of the row of target, a
\* user with a profile: promoteCustomer
promoteCustomer(caller, target, shown, newRole) ==
    LET userRole == get_user_role(caller)
        used(toast, error) ==
            [screen |-> "customers", caller |-> caller, userRole |-> userRole,
             target |-> target, shown |-> shown, newRole |-> newRole,
             toast |-> toast, error |-> error]
    IN /\ userRole \in {"admin", "staff", "superadmin"}
       /\ \E p \in profiles : p.user_id = target
       /\ shown \in ShownRoles(caller, target)
       /\ newRole \in PromoteOptions(userRole, shown)
       /\ \E ok \in BOOLEAN :
            LET upd == UpdateRoleRows(caller, target, newRole)
            IN IF ok /\ ~upd.error
               THEN /\ app_user_roles' = upd.rows
                    /\ role_ui' = used("success", "none")
               ELSE /\ UNCHANGED app_user_roles
                    /\ role_ui' = used("error", IF ok THEN "unique" ELSE "network")
       /\ UNCHANGED <<ext, stk, nav, pay_page, inventory_items, bookings, booking_items,
                      nb, bk>>

\* ------------------------------------------------------ specification
\* the equipment rows of every form that can be filled in
AllItemRows ==
    LET Row == [item_id : ItemIds \cup {NoItem}, quantity : Quantities]
    IN UNION {[1..n -> Row] : n \in LineCounts}

\* the inventory form as filled in: item, price in cents, total, available
InvForms(prices, totals, availables) ==
    [item : ItemIds, price : prices, total : totals, available : availables]

\* Spec: the customer form (used by the customer c1 and by the staff member
\* s1), the staff form and the inventory form, running concurrently
SpecUsers == {"c1", "s1"}

NbForms ==
    [pickup_date : {1},
     rental_days : {2},
     is_traveling : {FALSE},
     late_return_allowance : {0},
     deposit_percentage : {50},
     items : AllItemRows]

BkForms ==
    [customer_id : SpecUsers,
     hire_start_date : {1},
     hire_end_date : {3},
     deposit_amount : {0},
     items : AllItemRows]

Next ==
    \/ \E u \in SpecUsers : NbMount(u)
    \/ \E u \in SpecUsers : NbLeave(u)
    \/ \E u \in SpecUsers, fd \in NbForms :
          Len(bookings) < MaxBookings /\ NbSubmit(u, fd)
    \/ \E u \in SpecUsers : NbInsertItems(u)
    \/ \E u \in SpecUsers : NbUpdateStock(u)
    \/ BkMount
    \/ BkLeave
    \/ \E fd \in BkForms : Len(bookings) < MaxBookings /\ BkSubmit(fd)
    \/ BkInsertItems
    \/ \E f \in InvForms({1025}, {1}, {1, 2}) :
          InvSubmit(f.item, f.price, f.total, f.available)

Spec == Init /\ [][Next]_vars

\* SpecRace: two staff members book one unit of an item that is added once
\* with one unit available
RaceUsers == {"s1", "s2"}

RaceForms ==
    [pickup_date : {1},
     rental_days : {1},
     is_traveling : {FALSE},
     late_return_allowance : {0},
     deposit_percentage : {50},
     items : {<<[item_id |-> "A", quantity |-> 1]>>}]

NextRace ==
    \/ \E u \in RaceUsers : NbMount(u)
    \/ \E u \in RaceUsers : NbLeave(u)
    \/ \E u \in RaceUsers, fd \in RaceForms :
          Len(bookings) < MaxRaceBookings /\ NbSubmit(u, fd)
    \/ \E u \in RaceUsers : NbInsertItems(u)
    \/ \E u \in RaceUsers : NbUpdateStock(u)
    \/ \E f \in InvForms({1025}, {1}, {1}) :
          /\ ~inventory_items[f.item].present
          /\ InvSubmit(f.item, f.price, f.total, f.available)

SpecRace == Init /\ [][NextRace]_vars

\* SpecCost: the first booking of the data store, priced by the customer form
\* or by the staff form from every combination of price, dates, rental length
\* and deposit
CostNbForms ==
    [pickup_date : {1},
     rental_days : {1, 2},
     is_traveling : BOOLEAN,
     late_return_allowance : {DefaultAllowance},
     deposit_percentage : DepositPercentages,
     items : AllItemRows]

CostBkForms ==
    [customer_id : {StaffUser},
     hire_start_date : {1, 2, 3},
     hire_end_date : {1, 2, 3},
     deposit_amount : {0, 150000},
     items : AllItemRows]

NextCost ==
    \/ NbMount("c1")
    \/ NbLeave("c1")
    \/ \E fd \in CostNbForms : bookings = <<>> /\ NbSubmit("c1", fd)
    \/ NbInsertItems("c1")
    \/ NbUpdateStock("c1")
    \/ BkMount
    \/ BkLeave
    \/ \E fd \in CostBkForms : bookings = <<>> /\ BkSubmit(fd)
    \/ BkInsertItems
    \/ \E f \in InvForms({1025, 100000}, {2}, {2}) :
          InvSubmit(f.item, f.price, f.total, f.available)

SpecCost == Init /\ [][NextCost]_vars


\* SpecPay: one booking of 3000.00 with a deposit of 1500.00, made on the
\* customer form by the customer c1 or by the staff member s1, and the
\* payment dialog opened for it by the same user
MaxPayments == 2

PayUsers == {"c1", "s1"}

PayForms ==
    [pickup_date : {1},
     rental_days : {2},
     is_traveling : {FALSE},
     late_return_allowance : {0},
     deposit_percentage : {50},
     items : {<<[item_id |-> "A", quantity |-> 1]>>}]

CashInputs == {NaN, Num(-100), Num(0), Num(50000), Num(150000), Num(200000)}

PhoneInputs == {"", "0712345678"}

NextPay ==
    \/ \E f \in InvForms({150000}, {1}, {1}) :
          /\ ~inventory_items[f.item].present
          /\ InvSubmit(f.item, f.price, f.total, f.available)
    \/ \E u \in PayUsers : NbMount(u)
    \/ \E u \in PayUsers, fd \in PayForms : bookings = <<>> /\ NbSubmit(u, fd)
    \/ \E u \in PayUsers : NbInsertItems(u)
    \/ \E u \in PayUsers : NbUpdateStock(u)
    \/ \E u \in PayUsers, b \in 1..Len(bookings) : DpOpen(u, b)
    \/ DpClose
    \/ \E amount \in CashInputs :
          Len(payments) < MaxPayments /\ handleCashPayment(amount)
    \/ \E phoneNumber \in PhoneInputs :
          Len(payments) < MaxPayments /\ handleMpesaPayment(phoneNumber)
    \/ DpStkAnswer
    \/ DpUpdateBooking

SpecPay == Init /\ [][NextPay]_vars

\* SpecLife: the user s1, holding the staff or the admin role, books one unit
\* of an item on the customer form and then changes the status of bookings,
\* or deletes them, on the Bookings page
LifeForms ==
    [pickup_date : {1},
     rental_days : {2},
     is_traveling : {FALSE},
     late_return_allowance : {0},
     deposit_percentage : {50},
     items : {<<[item_id |-> "A", quantity |-> 1]>>}]

InitLife ==
    /\ InitExt
    /\ \E role \in {"staff", "admin"} :
          app_user_roles = {[user_id |-> StaffUser, role |-> role],
                            [user_id |-> AdminUser, role |-> "admin"]}
    /\ inventory_items = [i \in ItemIds |-> NoRow]
    /\ bookings = <<>>
    /\ booking_items = <<>>
    /\ nb = [u \in Users |-> NbClosed]
    /\ bk = BkClosed

NextLife ==
    \/ \E f \in InvForms({1025}, {2}, {1, 2}) :
          /\ ~inventory_items[f.item].present
          /\ InvSubmit(f.item, f.price, f.total, f.available)
    \/ NbMount(StaffUser)
    \/ \E fd \in LifeForms : Len(bookings) < MaxBookings /\ NbSubmit(StaffUser, fd)
    \/ NbInsertItems(StaffUser)
    \/ NbUpdateStock(StaffUser)
    \/ BkMount
    \/ BkLeave
    \/ \E b \in 1..Len(bookings), newStatus \in BookingStatuses :
          updateBookingStatus(b, newStatus)
    \/ \E b \in 1..Len(bookings) : deleteBooking(b)
    \/ \E b \in 1..Len(bookings), newStatus \in PaymentStatusOptions :
          updatePaymentStatus(b, newStatus)
    \/ \E b \in 1..Len(bookings), items \in AllItemRows : BkEdit(b, items)

SpecLife == InitLife /\ [][NextLife]_vars

\* SpecAccount: create-customer is invoked for an email that is taken and
\* for two that are free, with two ID numbers
Emails == {"c1", "n1", "n2"}

IdNumbers == {"id1", "id2"}

NextAccount ==
    \/ \E email \in Emails, idNumber \in IdNumbers : CcCreateUser(email, idNumber)
    \/ CcInsertProfile

SpecAccount == Init /\ [][NextAccount]_vars

\* SpecPhone: the push function formats one phone number of up to
\* MaxPhoneLen characters (the function keeps nothing between requests)
MaxPhoneLen == 4

PhoneChars == {"0", "2", "4", "5", "7"}

RECURSIVE SeqsUpTo(_, _)
SeqsUpTo(S, n) ==
    IF n = 0 THEN {<<>>}
    ELSE LET shorter == SeqsUpTo(S, n - 1)
         IN shorter \cup {Append(s, c) : s \in shorter, c \in S}

PhoneNumbers == SeqsUpTo(PhoneChars, MaxPhoneLen)

NextPhone ==
    \E phone_number \in PhoneNumbers : stk.pc = "idle" /\ StkFormat(phone_number)

SpecPhone == Init /\ [][NextPhone]_vars

\* SpecAllowance: the customer c1 books with and without the traveling box
\* ticked, with every allowance the Select offers
Allowances == {1, 2, 3, 5, 7}

AllowanceForms ==
    {fd \in [pickup_date : {1},
             rental_days : {1, 2},
             is_traveling : BOOLEAN,
             late_return_allowance : Allowances \cup {0},
             deposit_percentage : {50},
             items : {<<[item_id |-> "A", quantity |-> q]>> : q \in Quantities}] :
        fd.is_traveling <=> fd.late_return_allowance # 0}

NextAllowance ==
    \/ \E f \in InvForms({1025}, {2}, {2}) :
          /\ ~inventory_items[f.item].present
          /\ InvSubmit(f.item, f.price, f.total, f.available)
    \/ NbMount("c1")
    \/ \E fd \in AllowanceForms : Len(bookings) < MaxBookings /\ NbSubmit("c1", fd)
    \/ NbInsertItems("c1")
    \/ NbUpdateStock("c1")

SpecAllowance == Init /\ [][NextAllowance]_vars

\* SpecRoles: the role resolver and the Staff page over every table of role
\* rows of two users
RoleUsers == {"a1", "s1"}

InitRoles ==
    /\ InitExt
    /\ app_user_roles \in SUBSET [user_id : RoleUsers, role : Roles]
    /\ inventory_items = [i \in ItemIds |-> NoRow]
    /\ bookings = <<>>
    /\ booking_items = <<>>
    /\ nb = [u \in Users |-> NbClosed]
    /\ bk = BkClosed

NextRoles ==
    \/ \E u \in RoleUsers : Resolve(u)
    \/ \E caller \in RoleUsers, member \in [user_id : RoleUsers, role : Roles],
          newRole \in Roles : updateRole(caller, member, newRole)

SpecRoles == InitRoles /\ [][NextRoles]_vars

\* SpecScreens: the Staff page and the Customers page used by two users with
\* profiles, starting from every set of role rows of the two
InitScreens ==
    /\ payments = <<>>
    /\ dp = DpClosed
    /\ auth_users = {"c1", "s1", "s2", "a1"}
    /\ profiles = {[user_id |-> u, id_number |-> u] : u \in RoleUsers}
    /\ cc = CcIdle
    /\ resolved = NoAnswer
    /\ staff_page = StaffPageClosed
    /\ stk = StkIdle
    /\ role_ui = RoleUiIdle
    /\ nav = NavIdle
    /\ pay_page = PayPageIdle
    /\ app_user_roles \in SUBSET [user_id : RoleUsers, role : Roles]
    /\ inventory_items = [i \in ItemIds |-> NoRow]
    /\ bookings = <<>>
    /\ booking_items = <<>>
    /\ nb = [u \in Users |-> NbClosed]
    /\ bk = BkClosed

NextScreens ==
    \/ \E caller \in RoleUsers, member \in [user_id : RoleUsers, role : Roles],
          newRole \in Roles : updateRole(caller, member, newRole)
    \/ \E caller \in RoleUsers, target \in RoleUsers, shown \in Roles,
          newRole \in Roles : promoteCustomer(caller, target, shown, newRole)

SpecScreens == InitScreens /\ [][NextScreens]_vars

\* SpecNav: two users, holding any set of role rows, ask for the screens and
\* controls that depend on the role
NextNav == \E u \in RoleUsers, screen \in Screens : Visit(u, screen)

SpecNav == InitRoles /\ [][NextNav]_vars

\* SpecPayments: the staff member s1 books, records cash payments in the
\* deposit dialog and edits them on the Payments page
PaymentsForms ==
    [pickup_date : {1},
     rental_days : {2},
     is_traveling : {FALSE},
     late_return_allowance : {0},
     deposit_percentage : {50},
     items : {<<[item_id |-> "A", quantity |-> 1]>>}]

NextPayments ==
    \/ \E f \in InvForms({150000}, {1}, {1}) :
          /\ ~inventory_items[f.item].present
          /\ InvSubmit(f.item, f.price, f.total, f.available)
    \/ NbMount(StaffUser)
    \/ \E fd \in PaymentsForms : bookings = <<>> /\ NbSubmit(StaffUser, fd)
    \/ NbInsertItems(StaffUser)
    \/ NbUpdateStock(StaffUser)
    \/ \E b \in 1..Len(bookings) : DpOpen(StaffUser, b)
    \/ DpClose
    \/ \E amount \in {Num(50000), Num(150000)} :
          Len(payments) < MaxPayments /\ handleCashPayment(amount)
    \/ DpUpdateBooking
    \/ \E p \in 1..Len(payments), amount \in {50000, 100000},
          payment_type \in {"deposit", "balance"},
          mpesa_reference \in {"CASH"} :
          PayEdit(StaffUser, p, amount, payment_type, mpesa_reference)

SpecPayments == Init /\ [][NextPayments]_vars

\* ------------------------------------------------------------- claims
\* the booking_items rows of booking b
ItemsOf(b) == SelectSeq(booking_items, LAMBDA r : r.booking_id = b)

\* the rows a step appended to booking_items
NewItems == SubSeq(booking_items', Len(booking_items) + 1, Len(booking_items'))

\* Math.round of an amount given in hundredths of a cent, in whole shillings
MathRound(x) == (x + 5000) \div 10000

\* some equipment row of a form asks for more units of its item than the
\* available_quantity the form has fetched for it
ExceedsStock(fd, snapshot) ==
    \E i \in 1..Len(fd.items) :
        /\ Find(snapshot, fd.items[i].item_id).present
        /\ fd.items[i].quantity > Find(snapshot, fd.items[i].item_id).available_quantity

\* C1: a booking row is written only by a submission none of whose lines asks
\* for more than the item's available_quantity, on the customer form and on
\* the staff form alike.
C1_NoWriteBeyondStock ==
    /\ \A u \in Users :
          nb[u].pc \in {"items", "stock"} =>
              ~ExceedsStock(nb[u].formData, nb[u].inventoryItems)
    /\ bk.pc = "items" => ~ExceedsStock(bk.formData, bk.inventoryItems)

\* C2: two users who book one unit of an item with one unit available do not
\* both succeed, and available_quantity never drops below zero.
C2_NoDoubleBooking ==
    /\ Cardinality({u \in Users : nb[u].toast = "success"}) <= 1
    /\ \A i \in ItemIds : inventory_items[i].available_quantity >= 0

\* C3: every inventory item has 0 <= available_quantity <= total_quantity.
C3_StockWithinTotal ==
    \A i \in ItemIds :
        inventory_items[i].present =>
            /\ 0 <= inventory_items[i].available_quantity
            /\ inventory_items[i].available_quantity <= inventory_items[i].total_quantity

\* the step that ends a submission of the staff form, of the customer form,
\* with every write answered without error
BkCompletes == bk.pc = "items" /\ bk'.pc = "form" /\ bk'.failedAt = "none"

NbCompletes(u) == nb[u].pc = "stock" /\ nb'[u].toast = "success"

\* the last of the three writes: the stock update for the last line of fd
LastStockUpdate(uid, fd, snapshot) ==
    LET line == fd.items[Len(fd.items)]
    IN inventory_items' =
           UpdateAvailable(uid, line.item_id,
                           Find(snapshot, line.item_id).available_quantity
                               - line.quantity)

\* C4: on either screen a booking is complete only after the three writes in
\* order: the pending, unpaid booking row, the line items, and last the stock
\* update of each booked item.
C4_ThreeWrites ==
    [][/\ BkCompletes =>
             /\ bookings[bk.booking].status = "pending"
             /\ bookings[bk.booking].payment_status = "unpaid"
             /\ Len(ItemsOf(bk.booking)') = Len(bk.formData.items)
             /\ LastStockUpdate(StaffUser, bk.formData, bk.inventoryItems)
       /\ \A u \in Users :
             NbCompletes(u) =>
                 /\ bookings[nb[u].booking].status = "pending"
                 /\ bookings[nb[u].booking].payment_status = "unpaid"
                 /\ Len(ItemsOf(nb[u].booking)) = Len(nb[u].formData.items)
                 /\ LastStockUpdate(u, nb[u].formData, nb[u].inventoryItems)]_vars

\* the step in which a write of the customer form's submission is answered
\* with an error
NbFails(u, step) ==
    nb[u].pc = step /\ nb'[u] # nb[u] /\ nb'[u].failedAt = step

\* C5: an error of a write of the customer form's submission ends the
\* submission and undoes nothing: after a failed line-item insert the booking
\* row stays, without line items and without a stock update; after a failed
\* k-th stock update the rows stay and the k-1 updates before it are not
\* undone, each having set the stock of an inventory manager's line to the
\* fetched quantity less the booked one.
C5_AbortWithoutRollback ==
    [][\A u \in Users :
          /\ NbFails(u, "items") =>
                /\ nb'[u].pc = "form"
                /\ UNCHANGED <<bookings, booking_items, inventory_items>>
                /\ nb[u].booking \in 1..Len(bookings)
                /\ ItemsOf(nb[u].booking) = <<>>
                /\ nb[u].idx = 0
          /\ NbFails(u, "stock") =>
                /\ nb'[u].pc = "form"
                /\ UNCHANGED <<bookings, booking_items, inventory_items>>
                /\ nb[u].booking \in 1..Len(bookings)
                /\ Len(ItemsOf(nb[u].booking)) = Len(nb[u].formData.items)
                /\ nb'[u].idx = nb[u].idx
          /\ (nb[u].pc = "stock" /\ nb'[u] # nb[u] /\ ~NbFails(u, "stock")
                /\ CanManageInventory(u)) =>
                LET line == nb[u].formData.items[nb[u].idx]
                IN inventory_items'[line.item_id].available_quantity =
                       nb[u].inventoryItems[line.item_id].available_quantity
                           - line.quantity]_vars

\* C5: the second stock update of an inventory manager's submission has
\* failed, the first one is in the data store
C5_Witness ==
    \E u \in Users :
        /\ nb[u].failedAt = "stock" /\ nb[u].idx = 2
        /\ CanManageInventory(u)
        /\ Len(ItemsOf(nb[u].booking)) = 2
        /\ inventory_items["A"].available_quantity
               = nb[u].inventoryItems["A"].available_quantity - 1

\* C6: a stock update sent for a user who holds the customer role only leaves
\* inventory_items as it was and is answered without error, so that the
\* submission ends with the success message and the stock not decremented.
C6_SilentStockUpdate ==
    [][\A u \in Users :
          (nb[u].pc = "stock" /\ nb'[u] # nb[u] /\ get_user_role(u) = "customer") =>
              /\ inventory_items' = inventory_items
              /\ (~NbFails(u, "stock") /\ nb[u].idx = Len(nb[u].formData.items)) =>
                     nb'[u].toast = "success"]_vars

\* C6: a customer has the success message for a booking of two units of an
\* item whose two available units are still in the data store
C6_Witness ==
    \E u \in Users :
        /\ get_user_role(u) = "customer"
        /\ nb[u].toast = "success"
        /\ \E j \in 1..Len(booking_items) :
              /\ booking_items[j].booking_id = nb[u].booking
              /\ booking_items[j].quantity = 2
              /\ inventory_items[booking_items[j].item_id].available_quantity = 2

\* C7: every booking row has total_cost = deposit_amount + balance_amount.
C7_TotalIsDepositPlusBalance ==
    \A b \in 1..Len(bookings) :
        bookings[b].total_cost = bookings[b].deposit_amount + bookings[b].balance_amount

\* C8: every booking row has deposit_amount = round(total_cost * p / 100) for
\* a deposit percentage p of 30, 50 or 100, a whole number of shillings.
C8_DepositIsRounded ==
    \A b \in 1..Len(bookings) :
        \E pct \in DepositPercentages :
            bookings[b].deposit_amount = 100 * MathRound(bookings[b].total_cost * pct)

\* the total of a form priced for the inclusive day count of its dates
InclusiveTotal(fd, snapshot) ==
    SumSeq([i \in 1..Len(fd.items) |->
               Find(snapshot, fd.items[i].item_id).price_per_day
                   * fd.items[i].quantity
                   * calculateDays(fd.hire_start_date, fd.hire_end_date)])

\* C9: a booking priced from a start date and an end date is priced for
\* ceil((end - start) / 1 day) + 1 days.
C9_InclusiveDays ==
    bk.pc = "items" =>
        bookings[bk.booking].total_cost = InclusiveTotal(bk.formData, bk.inventoryItems)

\* the rows a step appended are priced rate * quantity * days each, and the
\* total_cost of booking b is their sum
PricedFor(b, days) ==
    /\ NewItems # <<>>
    /\ \A j \in 1..Len(NewItems) :
          /\ NewItems[j].booking_id = b
          /\ NewItems[j].total_amount =
                 NewItems[j].daily_rate * NewItems[j].quantity * days
    /\ bookings[b].total_cost =
           SumSeq([j \in 1..Len(NewItems) |->
                      NewItems[j].daily_rate * NewItems[j].quantity * days])

\* C10: every line item is inserted with total_amount = daily_rate * quantity
\* * duration, the duration for which the booking's total_cost was computed:
\* rental_days on the customer form, the day count of the dates on the staff
\* form.
C10_LineTotals ==
    [][/\ \A u \in Users :
             (nb[u].pc = "items" /\ nb'[u].pc = "stock") =>
                 PricedFor(nb[u].booking, nb[u].formData.rental_days)
       /\ (bk.pc = "items" /\ booking_items' # booking_items) =>
             PricedFor(bk.booking, BkDays(bk.formData))]_vars

\* C10: two units at 1000.00 a day for two days are in a line of 4000.00
C10_Witness ==
    \E j \in 1..Len(booking_items) :
        /\ booking_items[j].quantity = 2
        /\ booking_items[j].daily_rate = 100000
        /\ booking_items[j].total_amount = 400000
        /\ bookings[booking_items[j].booking_id].total_cost >= 400000


\* the sum of total_amount over the rows of a sequence of line items
SumOfLines(rows) == SumSeq([j \in 1..Len(rows) |-> rows[j].total_amount])

Held(u) == {r.role : r \in {x \in app_user_roles : x.user_id = u}}

\* the order admin/superadmin > staff > customer, highest first
SpecRank(role) ==
    CASE role \in {"admin", "superadmin"} -> 1
      [] role = "staff" -> 2
      [] role = "customer" -> 3
      [] OTHER -> 4

\* C12: for a user who holds some role, the resolver answers a role the user
\* holds that no other held role outranks in the order admin/superadmin >
\* staff > customer.
C12_HighestRoleWins ==
    [][\A u \in RoleUsers :
          (resolved' # resolved /\ resolved'.user_id = u /\ Held(u) # {}) =>
              /\ resolved'.role \in Held(u)
              /\ \A q \in Held(u) : SpecRank(resolved'.role) <= SpecRank(q)]_vars

\* C13: for a user with no role row the resolver answers "customer".
C13_DefaultCustomer ==
    [][\A u \in RoleUsers :
          (resolved' # resolved /\ resolved'.user_id = u /\ Held(u) = {}) =>
              resolved'.role = "customer"]_vars

\* C18: a step that changes a role row is taken by a caller who holds admin
\* or superadmin, for the rows of another user.
C18_OnlyOthersRoles ==
    [][app_user_roles' # app_user_roles =>
          /\ CanManageRoles(staff_page'.user)
          /\ staff_page'.user # staff_page'.target]_vars


\* the payment_status values the specification calls the partial
\* (deposit-paid) state
PartialStates == {"partial", "deposit_paid"}

\* the last row of payments
LastPayment == payments[Len(payments)]

\* C14: when the payments insert of a cash payment of exactly the deposit has
\* been answered, the row is there with status completed and type deposit,
\* and the bookings update that follows, unless the request itself is lost,
\* leaves the booking in the partial (deposit-paid) state.
C14_CashDepositIsPartial ==
    [][(/\ dp.pc = "booking" /\ dp.method = "cash"
        /\ dp.amount.cents = dp.deposit_amount
        /\ dp' # dp /\ dp'.error # "network") =>
          /\ LastPayment.status = "completed"
          /\ LastPayment.payment_type = "deposit"
          /\ LastPayment.amount = dp.deposit_amount
          /\ bookings'[dp.booking].payment_status \in PartialStates]_vars

\* C15: a cash payment whose amount is not a number, is <= 0 or exceeds the
\* deposit_amount of the booking is refused: no payments row is written, the
\* booking is unchanged and the dialog stays open with the toast of the check.
C15_InvalidCashRejected ==
    [][(/\ dp.pc = "open" /\ dp'.method = "cash" /\ dp' # dp
        /\ \/ dp'.amount.nan
           \/ dp'.amount.cents <= 0
           \/ dp'.amount.cents > dp.deposit_amount) =>
          /\ UNCHANGED <<payments, bookings>>
          /\ dp'.pc = "open"
          /\ dp'.toast \in {"Invalid Amount", "Amount Too High"}]_vars

\* C15: a staff member was refused 2000.00 against a deposit of 1500.00
C15_Witness ==
    /\ dp.toast = "Amount Too High"
    /\ CanManagePayments(dp.user)
    /\ dp.amount.cents > dp.deposit_amount
    /\ payments = <<>>
    /\ bookings[dp.booking].payment_status = "unpaid"

\* C16: once the push function has been called, whatever it answers, a
\* payments row with status pending is recorded, and the bookings update
\* that follows leaves the booking in the partial state; only a lost request
\* is excepted.
C16_PendingRecordedAlways ==
    [][/\ (dp.pc = "stk" /\ dp' # dp /\ dp'.error # "network") =>
             /\ Len(payments') = Len(payments) + 1
             /\ payments'[Len(payments')].status = "pending"
       /\ (dp.pc = "booking" /\ dp.method = "mpesa" /\ dp' # dp
             /\ dp'.error # "network") =>
             bookings'[dp.booking].payment_status \in PartialStates]_vars


\* the units of item i in the line items of booking b
UnitsBooked(b, i) ==
    SumSeq([j \in 1..Len(ItemsOf(b)) |->
               IF ItemsOf(b)[j].item_id = i THEN ItemsOf(b)[j].quantity ELSE 0])

ActiveStatuses == {"pending", "confirmed"}

\* C17: the step in which a booking stops being active (its status becomes
\* completed or cancelled) gives the units of its line items back to the
\* available_quantity of their items.
C17_ReleasedOnClose ==
    [][\A b \in 1..Len(bookings) :
          (/\ bookings[b].status \in ActiveStatuses
           /\ Len(bookings') = Len(bookings)
           /\ bookings'[b].status \notin ActiveStatuses) =>
              \A i \in ItemIds :
                  inventory_items'[i].available_quantity =
                      inventory_items[i].available_quantity + UnitsBooked(b, i)]_vars

\* C19: a step that changes the price_per_day of an inventory item changes no
\* booking and no line item.
C19_RateIsSnapshot ==
    [][(\E i \in ItemIds :
           /\ inventory_items[i].present
           /\ inventory_items'[i].price_per_day # inventory_items[i].price_per_day) =>
          UNCHANGED <<bookings, booking_items>>]_vars

\* C19: a line item keeps the rate of 10.25 and its booking the total priced
\* from it after the item's price was changed to 1000.00
C19_Witness ==
    \E j \in 1..Len(booking_items) :
        /\ booking_items[j].daily_rate = 1025
        /\ inventory_items[booking_items[j].item_id].price_per_day = 100000
        /\ bookings[booking_items[j].booking_id].total_cost
               = SumOfLines(ItemsOf(booking_items[j].booking_id))


\* C20: create-customer inserts a Profile row only for an identity that
\* already exists; it answers { success, user }, status 200, only when the
\* identity and its Profile row both exist; and when the profiles insert fails
\* it answers { error } with status 400 and leaves the created identity in
\* auth.users.
C20_IdentityThenProfile ==
    /\ [](cc.response.success =>
            /\ cc.response.status = 200
            /\ cc.response.user \in auth_users
            /\ \E p \in profiles : p.user_id = cc.response.user)
    /\ [][/\ \A p \in profiles' \ profiles : p.user_id \in auth_users
          /\ (cc.pc = "profile" /\ profiles' = profiles) =>
                /\ cc'.response = CcError
                /\ cc.user \in auth_users'
                /\ auth_users' = auth_users]_vars

\* C20: the function answered { error } for a request whose identity exists
\* and has no Profile row
C20_Witness ==
    /\ cc.pc = "idle"
    /\ cc.response = CcError
    /\ cc.user \in auth_users
    /\ \A p \in profiles : p.user_id # cc.user

\* C21: the PartyA the push function built is the phone number with its
\* leading 0 replaced by 254, the phone number itself when it starts with
\* 254, and 254 followed by the phone number otherwise; PartyA starts with
\* 254 and formatting PartyA again gives PartyA.
C21_PhoneNormalized ==
    stk.pc = "built" =>
        LET p == stk.phone_number
            r == stk.PartyA
        IN /\ (Len(p) >= 1 /\ p[1] = "0") => r = Prefix254 \o Tail(p)
           /\ StartsWith254(p) => r = p
           /\ (~(Len(p) >= 1 /\ p[1] = "0") /\ ~StartsWith254(p)) =>
                  r = Prefix254 \o p
           /\ StartsWith254(r)
           /\ formattedPhone(r) = r

\* C21: 2540 was formatted to itself
C21_Witness ==
    /\ stk.pc = "built"
    /\ stk.phone_number = <<"2", "5", "4", "0">>
    /\ stk.PartyA = <<"2", "5", "4", "0">>

\* the total of the form fd for its rental_days alone, in cents
RentalDaysTotal(fd, snapshot) ==
    SumSeq([i \in 1..Len(fd.items) |->
               Find(snapshot, fd.items[i].item_id).price_per_day
                   * fd.items[i].quantity * fd.rental_days])

\* C22: a booking of the customer form is inserted with hire_end_date =
\* pickup_date + rental_days + allowance, the allowance counting 0 when the
\* customer is not traveling, and with the total_cost of rental_days alone;
\* its line items are priced for rental_days alone.
C22_AllowanceNotCharged ==
    [][\A u \in Users :
          /\ (nb[u].pc = "form" /\ nb'[u].pc = "items") =>
                LET fd == nb'[u].formData
                    row == bookings'[nb'[u].booking]
                IN /\ row.hire_end_date =
                          fd.pickup_date + fd.rental_days
                              + (IF fd.is_traveling
                                 THEN fd.late_return_allowance ELSE 0)
                   /\ row.total_cost = RentalDaysTotal(fd, nb[u].inventoryItems)
          /\ (nb[u].pc = "items" /\ nb'[u].pc = "stock") =>
                \A j \in 1..Len(NewItems) :
                    NewItems[j].total_amount =
                        NewItems[j].daily_rate * NewItems[j].quantity
                            * nb[u].formData.rental_days]_vars

\* C22: a booking of two rental days with a week of allowance ends nine days
\* after the pickup and costs two days
C22_Witness ==
    \E b \in 1..Len(bookings) :
        /\ bookings[b].hire_end_date - bookings[b].hire_start_date = 9
        /\ bookings[b].total_cost = 2050
        /\ ItemsOf(b) # <<>>
        /\ ItemsOf(b)[1].total_amount = 2050

\* a role control was used in the step
RoleControlUsed == role_ui' # role_ui \/ app_user_roles' # app_user_roles

C24_WritesAccepted ==
    /\ dp.error # "check"
    /\ bk.failedAt # "payment_status check"

\* the order unpaid < partial < paid of the payment_status values
PaymentRank(st) ==
    CASE st \in {"partial", "deposit_paid"} -> 1
      [] st \in {"paid", "fully_paid"} -> 2
      [] OTHER -> 0

UnitsRequested(fd, i) ==
    SumSeq([j \in 1..Len(fd.items) |->
               IF fd.items[j].item_id = i THEN fd.items[j].quantity ELSE 0])

\* C26: a submission of the customer form that passes validation requests,
\* over all its rows, no more units of an item than the form fetched as
\* available, and the submission that completes leaves the item with the
\* fetched available_quantity less the units requested.
C26_TotalWithinStock ==
    [][\A u \in Users :
          /\ (nb[u].pc = "form" /\ nb'[u].pc = "items") =>
                \A i \in ItemIds :
                    nb[u].inventoryItems[i].present =>
                        UnitsRequested(nb'[u].formData, i)
                            <= nb[u].inventoryItems[i].available_quantity
          /\ NbCompletes(u) =>
                \A i \in ItemIds :
                    (nb[u].inventoryItems[i].present
                        /\ UnitsRequested(nb[u].formData, i) > 0) =>
                        inventory_items'[i].available_quantity =
                            nb[u].inventoryItems[i].available_quantity
                                - UnitsRequested(nb[u].formData, i)]_vars

\* the step rewrote the customer, the dates or the amounts of booking b
Edited(b) ==
    /\ Len(bookings') = Len(bookings)
    /\ \E f \in {"customer_id", "hire_start_date", "hire_end_date",
                 "total_cost", "deposit_amount", "balance_amount"} :
          bookings'[b][f] # bookings[b][f]

\* C27: a step that edits a booking leaves its status and its payment_status
\* as they were, and the total_cost it writes is the sum of total_amount over
\* the booking's line items.
C27_EditKeepsStatusAndTotal ==
    [][\A b \in 1..Len(bookings) :
          Edited(b) =>
              /\ bookings'[b].status = bookings[b].status
              /\ bookings'[b].payment_status = bookings[b].payment_status
              /\ ItemsOf(b) # <<>> =>
                     bookings'[b].total_cost = SumOfLines(ItemsOf(b))]_vars

\* C28: a role control used to give a user who holds some role a role other
\* than the one shown, the request not being lost, replaces exactly one role
\* row of that user.
C28_OneRowChanged ==
    [][(/\ RoleControlUsed
        /\ role_ui'.error # "network"
        /\ role_ui'.newRole # role_ui'.shown
        /\ Held(role_ui'.target) # {}) =>
           /\ Cardinality(app_user_roles \ app_user_roles') = 1
           /\ Cardinality(app_user_roles' \ app_user_roles) = 1
           /\ \A r \in (app_user_roles \ app_user_roles')
                        \cup (app_user_roles' \ app_user_roles) :
                  r.user_id = role_ui'.target]_vars

\* C29: a screen or control that is shown to a user whose role is admin is
\* shown to a user whose role is superadmin.
C29_SuperadminReachesAll ==
    (nav.userRole = "superadmin" /\ Shown(nav.screen, "admin")) => nav.shown

\* C30: a step that rewrites a payment leaves the status of the payment as
\* it was.
C30_EditKeepsStatus ==
    [][\A p \in 1..Len(payments) :
          (Len(payments') >= Len(payments) /\ payments'[p] # payments[p]) =>
              payments'[p].status = payments[p].status]_vars

====
